---- MODULE Spec2Model ----
(***************************************************************************)
(* django-unmanaged-assistant: the reconciliation core.                    *)
(*   management/core/db_handlers.py  types_are_compatible, parse_table_name *)
(*   management/core/manager.py      process_models, temporary_table_name   *)
(* Strings are sequences of one-character strings, so that lower(), strip() *)
(* and split() are computed character by character as Python does.          *)
(***************************************************************************)
EXTENDS Integers, Sequences, FiniteSets, TLC

VARIABLES
    \* ---- types_are_compatible called on a pair of type names
    existing_type,      \* argument existing_type
    expected_type,      \* argument expected_type
    compat_called,      \* the call has returned
    compat_result,      \* its return value
    \* ---- parse_table_name called on a raw identifier
    table_name,         \* argument table_name
    default_schema,     \* what self.get_default_schema(connection) returns
    parse_called,       \* the call has ended
    parsed,             \* [err, schema, table]: the tuple returned, or the error raised
    \* ---- is_app_eligible called on an app configuration
    app_name,           \* app_config.name
    app_path,           \* app_config.path
    exclude_setting,    \* settings.EXCLUDE_UNMANAGED_PATH, or Unset
    additional_apps,    \* settings.ADDITIONAL_UNMANAGED_TABLE_APPS: [is_set, apps]
    eligible_called,    \* the call has returned
    eligible,           \* its return value
    \* ---- DatabaseManager.process_models
    models_to_process,  \* self.models_to_process: the entities, in discovery order
    mapping,            \* settings.APP_TO_DATABASE_MAPPING
    vendor,             \* connections[alias].vendor
    db_table,           \* model._meta.db_table of every model
    models_by_connection, \* the dict of line 115, in insertion order
    pc,                 \* where process_models is
    conn_idx,           \* position of the for loop of line 130
    model_idx,          \* position of the for loop of line 135 or of line 141
    stack,              \* the ExitStack: the guards entered and not yet released
    exc,                \* the exception that is propagating, or NoError
    scope,              \* connection.schema_editor() of every connection in this run
    opened,             \* how many times each connection's scope was opened in this run
    db,                 \* the tables and columns of the databases
    db_at_open,         \* db when the open scope began (what a rollback restores)
    db_at_start,        \* db when the run began
    ddl,                \* the DDL issued in this run, in order
    run,                \* which run this is
    prev_outcome        \* how the previous run ended

compat_vars == <<existing_type, expected_type, compat_called, compat_result>>
parse_vars == <<table_name, default_schema, parse_called, parsed>>
eligible_vars ==
    <<app_name, app_path, exclude_setting, additional_apps, eligible_called, eligible>>
input_vars == <<models_to_process, mapping, vendor>>
run_vars ==
    <<db_table, models_by_connection, pc, conn_idx, model_idx, stack, exc, scope,
      opened, db, db_at_open, db_at_start, ddl, run, prev_outcome>>
vars == <<compat_vars, parse_vars, eligible_vars, input_vars, run_vars>>
\* What no step of process_models changes.
other_vars == <<compat_vars, parse_vars, eligible_vars, input_vars>>

\* ------------------------------------------------------------------ strings

\* Python's None, where a str is expected (get_column_type -> str | None).
NoneVal == <<"<None>">>

UpperLetters ==
    <<"A", "B", "C", "D", "E", "F", "G", "H", "I", "J", "K", "L", "M",
      "N", "O", "P", "Q", "R", "S", "T", "U", "V", "W", "X", "Y", "Z">>

LowerLetters ==
    <<"a", "b", "c", "d", "e", "f", "g", "h", "i", "j", "k", "l", "m",
      "n", "o", "p", "q", "r", "s", "t", "u", "v", "w", "x", "y", "z">>

\* str.lower() on one character: only the upper-case letters change.
LowerChar(c) ==
    IF \E k \in DOMAIN UpperLetters : UpperLetters[k] = c
    THEN LowerLetters[CHOOSE k \in DOMAIN UpperLetters : UpperLetters[k] = c]
    ELSE c

\* str.lower()
Lower(s) == [k \in DOMAIN s |-> LowerChar(s[k])]

\* Python truthiness of a str-or-None: None and "" are falsy.
Truthy(s) == s # NoneVal /\ s # <<>>

\* x in list
InList(x, list) == \E k \in DOMAIN list : list[k] = x

\* c in s, for a one-character c
HasChar(c, s) == \E k \in DOMAIN s : s[k] = c

\* s.strip(chars): every leading and every trailing character that is in chars
\* is removed, however many there are and whether or not they match up.
RECURSIVE LStrip(_, _)
LStrip(s, chars) ==
    IF s # <<>> /\ Head(s) \in chars THEN LStrip(Tail(s), chars) ELSE s

RECURSIVE RStrip(_, _)
RStrip(s, chars) ==
    IF s # <<>> /\ s[Len(s)] \in chars
    THEN RStrip(SubSeq(s, 1, Len(s) - 1), chars)
    ELSE s

Strip(s, chars) == RStrip(LStrip(s, chars), chars)

\* s.rsplit(sep, 1) in place of s.split(sep, 1): the split at the last sep.
Split1_Last(s, sep) ==
    IF HasChar(sep, s)
    THEN LET p == CHOOSE k \in DOMAIN s :
                      s[k] = sep /\ \A j \in (k + 1)..Len(s) : s[j] # sep
         IN  <<SubSeq(s, 1, p - 1), SubSeq(s, p + 1, Len(s))>>
    ELSE <<s>>

\* s.split(sep, 1): at most one split, at the first occurrence of sep.
Split1(s, sep) ==
    IF HasChar(sep, s)
    THEN LET p == CHOOSE k \in DOMAIN s :
                      s[k] = sep /\ \A j \in 1..(k - 1) : s[j] # sep
         IN  <<SubSeq(s, 1, p - 1), SubSeq(s, p + 1, Len(s))>>
    ELSE <<s>>

\* ------------------------------------------------- types_are_compatible

\* The values of the dict compatible_types, in the dict's order.
compatible_types ==
    << \* "int"
       << <<"i", "n", "t">>,
          <<"i", "n", "t", "e", "g", "e", "r">>,
          <<"s", "m", "a", "l", "l", "i", "n", "t">>,
          <<"b", "i", "g", "i", "n", "t">> >>,
       \* "varchar"
       << <<"v", "a", "r", "c", "h", "a", "r">>,
          <<"c", "h", "a", "r">>,
          <<"t", "e", "x", "t">>,
          <<"n", "v", "a", "r", "c", "h", "a", "r">>,
          <<"n", "c", "h", "a", "r">> >>,
       \* "float"
       << <<"f", "l", "o", "a", "t">>,
          <<"r", "e", "a", "l">>,
          <<"d", "o", "u", "b", "l", "e", " ", "p", "r", "e", "c", "i", "s", "i", "o", "n">> >>,
       \* "decimal"
       << <<"d", "e", "c", "i", "m", "a", "l">>,
          <<"n", "u", "m", "e", "r", "i", "c">> >>,
       \* "datetime"
       << <<"d", "a", "t", "e", "t", "i", "m", "e">>,
          <<"t", "i", "m", "e", "s", "t", "a", "m", "p">>,
          <<"d", "a", "t", "e">>,
          <<"t", "i", "m", "e">> >>,
       \* "bool"
       << <<"b", "o", "o", "l">>,
          <<"b", "o", "o", "l", "e", "a", "n">>,
          <<"b", "i", "t">> >> >>

\* Canonical without the .lower() call.
Canonical_NoLower(type_name) == IF Truthy(type_name) THEN type_name ELSE <<>>

\* existing_type.lower() if existing_type else ""
Canonical(type_name) == IF Truthy(type_name) THEN Lower(type_name) ELSE <<>>

\* The loop with "or" in place of "and" in the test of line 34.
RECURSIVE CompatibleLoop_Or(_, _, _)
CompatibleLoop_Or(k, existing, expected) ==
    IF k > Len(compatible_types) THEN FALSE
    ELSE IF InList(existing, compatible_types[k]) \/ InList(expected, compatible_types[k])
         THEN TRUE
         ELSE CompatibleLoop_Or(k + 1, existing, expected)

\* The loop with "return False" inside it: only the first group is looked at.
CompatibleLoop_FirstOnly(k, existing, expected) ==
    InList(existing, compatible_types[1]) /\ InList(expected, compatible_types[1])

\* for compatible_list in compatible_types.values(): ... return True / return False
RECURSIVE CompatibleLoop(_, _, _)
CompatibleLoop(k, existing, expected) ==
    IF k > Len(compatible_types) THEN FALSE
    ELSE IF InList(existing, compatible_types[k]) /\ InList(expected, compatible_types[k])
         THEN TRUE
         ELSE CompatibleLoop(k + 1, existing, expected)

\* types_are_compatible without line 22: expected_type is looked up as given.
types_are_compatible_ExistingOnly(existing, expected) ==
    CompatibleLoop(1, Canonical(existing), IF Truthy(expected) THEN expected ELSE <<>>)

types_are_compatible(existing, expected) ==
    CompatibleLoop(1, Canonical(existing), Canonical(expected))

\* ----------------------------------------------------- parse_table_name

NoError == "none"

\* if "[" in table_name and "]" in table_name: ... elif "." in table_name: ...
\* else: ...; then the quotes are stripped from both parts.
parse_table_name(dflt, name) ==
    LET parts == Split1(name, ".")
        quotes(s) == Strip(Strip(s, {"\""}), {"'"})
    IN  IF HasChar("[", name) /\ HasChar("]", name)
        THEN IF Len(parts) < 2
             THEN [err |-> "IndexError", schema |-> <<>>, table |-> <<>>]
             ELSE [err |-> NoError,
                   schema |-> quotes(Strip(parts[1], {"[", "]"})),
                   table |-> quotes(Strip(parts[2], {"[", "]"}))]
        ELSE IF HasChar(".", name)
             THEN [err |-> NoError,
                   schema |-> quotes(parts[1]),
                   table |-> quotes(parts[2])]
             ELSE [err |-> NoError,
                   schema |-> quotes(dflt),
                   table |-> quotes(name)]

\* ----------------------------------------------- the entities and settings

Models == {"Order", "Item", "Audit"}

Aliases == {"default", "analytics"}

AppLabels == {"sales", "core"}

\* model._meta.app_label
app_label(m) == IF m = "Order" THEN "sales" ELSE "core"

\* The db_table every model declares: a dotted identifier, a bare one, and a
\* bracketed one with no '.' in it.
declared_db_table(m) ==
    CASE m = "Order" -> <<"s", "a", "l", "e", "s", ".", "o", "r", "d", "e", "r", "s">>
      [] m = "Item" -> <<"i", "t", "e", "m", "s">>
      [] m = "Audit" -> <<"[", "a", "u", "d", "i", "t", "]">>

\* The fields of every model, with the native type get_field_db_type gives each.
model_fields(m) ==
    CASE m = "Order" -> <<[name |-> "id", db_type |-> <<"i", "n", "t", "e", "g", "e", "r">>],
                          [name |-> "key", db_type |-> <<"u", "u", "i", "d">>]>>
      [] m = "Item" -> <<[name |-> "flag", db_type |-> <<"b", "o", "o", "l", "e", "a", "n">>]>>
      [] m = "Audit" -> <<[name |-> "at", db_type |-> <<"t", "i", "m", "e", "s", "t", "a", "m", "p">>]>>

FieldNames(m) == {model_fields(m)[k].name : k \in DOMAIN model_fields(m)}

\* A key the dict APP_TO_DATABASE_MAPPING does not hold (.get gives None).
Absent == "<absent>"

\* The settings a run may have: no mapping at all, one app mapped, and one app
\* mapped with the other mapped to an empty alias.
Mappings ==
    { [a \in AppLabels |-> Absent],
      [a \in AppLabels |-> IF a = "sales" THEN "analytics" ELSE Absent],
      [a \in AppLabels |-> IF a = "sales" THEN "analytics" ELSE ""] }

\* The vendors of the two connections.
VendorSettings ==
    { [a \in Aliases |-> IF a = "default" THEN "postgresql" ELSE "microsoft"],
      [a \in Aliases |-> IF a = "default" THEN "sqlite" ELSE "postgresql"],
      [a \in Aliases |-> IF a = "default" THEN "microsoft" ELSE "sqlite"],
      [a \in Aliases |-> IF a = "default" THEN "postgresql" ELSE "mysql"] }

\* The handler classes db_handlers.py defines (MySQLHandler is commented out).
HandlerVendors == {"postgresql", "microsoft", "sqlite"}

\* get_default_schema of PostgreSQLHandler, MSSQLHandler, SQLiteHandler
get_default_schema(v) ==
    CASE v = "postgresql" -> <<"p", "u", "b", "l", "i", "c">>
      [] v = "microsoft" -> <<"d", "b", "o">>
      [] OTHER -> <<"m", "a", "i", "n">>

\* get_formatted_table_name: "schema"."table" for PostgreSQL, [schema].[table]
\* for SQL Server, the bare table for the schema-less dialect.
get_formatted_table_name(v, schema, table) ==
    CASE v = "postgresql" -> <<"\"">> \o schema \o <<"\"", ".", "\"">> \o table \o <<"\"">>
      [] v = "microsoft" -> <<"[">> \o schema \o <<"]", ".", "[">> \o table \o <<"]">>
      [] OTHER -> table

\* ------------------------------------------------------- the databases

NoColumns(m) == [f \in FieldNames(m) |-> NoneVal]

\* No table exists.
EmptyDB == [m \in Models |-> [exists |-> FALSE, cols |-> NoColumns(m)]]

\* Every table exists; its columns have a synonym of the expected type, or the
\* expected type in another letter case.
SynonymDB ==
    [m \in Models |->
        [exists |-> TRUE,
         cols |-> CASE m = "Order" -> [f \in FieldNames(m) |->
                                          IF f = "id" THEN <<"I", "N", "T">>
                                          ELSE <<"U", "U", "I", "D">>]
                    [] m = "Item" -> [f \in FieldNames(m) |-> <<"b", "i", "t">>]
                    [] m = "Audit" -> [f \in FieldNames(m) |->
                                          <<"d", "a", "t", "e", "t", "i", "m", "e">>]]]

\* Order has a column of another family and lacks a column; Item has no table.
DriftedDB ==
    [m \in Models |->
        [exists |-> m # "Item",
         cols |-> CASE m = "Order" -> [f \in FieldNames(m) |->
                                          IF f = "id" THEN <<"v", "a", "r", "c", "h", "a", "r">>
                                          ELSE NoneVal]
                    [] m = "Item" -> NoColumns(m)
                    [] m = "Audit" -> [f \in FieldNames(m) |->
                                          <<"t", "i", "m", "e", "s", "t", "a", "m", "p">>]]]

InitialDBs == {EmptyDB, SynonymDB, DriftedDB}

\* ------------------------------------------------------- bounds

\* The longest list of entities a run is given.
MaxModels == 3

\* Reconciliation is run twice in a row.
Runs == {1, 2}

RECURSIVE SeqsUpTo(_, _)
SeqsUpTo(S, n) ==
    IF n = 0 THEN {<<>>}
    ELSE LET shorter == SeqsUpTo(S, n - 1)
         IN  shorter \cup {Append(s, x) : s \in {t \in shorter : Len(t) = n - 1}, x \in S}

\* ------------------------------------------------------- process_models

\* Lines 118-124: the alias of a model. "default", unless the mapping is
\* non-empty and has a non-empty alias for the model's app label.
ResolveAlias(map, m) ==
    LET db_name == map[app_label(m)]
    IN  IF (\E a \in AppLabels : map[a] # Absent) /\ db_name # Absent /\ db_name # ""
        THEN db_name
        ELSE "default"

\* The loop grouping runs of neighbours only: a connection met again after
\* another one gets a second entry.
RECURSIVE GroupLoop_Consecutive(_, _, _)
GroupLoop_Consecutive(map, todo, acc) ==
    IF todo = <<>> THEN acc
    ELSE LET m == Head(todo)
             alias == ResolveAlias(map, m)
             known == acc # <<>> /\ acc[Len(acc)].connection = alias
             acc1 == IF known THEN acc
                     ELSE Append(acc, [connection |-> alias, models |-> <<>>])
         IN  GroupLoop_Consecutive(map, Tail(todo),
                                   [acc1 EXCEPT ![Len(acc1)].models = Append(@, m)])

\* The loop putting each model at the front of its connection's list.
RECURSIVE GroupLoop_Prepend(_, _, _)
GroupLoop_Prepend(map, todo, acc) ==
    IF todo = <<>> THEN acc
    ELSE LET m == Head(todo)
             alias == ResolveAlias(map, m)
             known == \E k \in DOMAIN acc : acc[k].connection = alias
             acc1 == IF known THEN acc
                     ELSE Append(acc, [connection |-> alias, models |-> <<>>])
             at == CHOOSE k \in DOMAIN acc1 : acc1[k].connection = alias
         IN  GroupLoop_Prepend(map, Tail(todo),
                               [acc1 EXCEPT ![at].models = <<m>> \o @])

\* Lines 116-127: the loop that fills models_by_connection, an entry per
\* connection in the order of its first model, every model appended to its entry.
RECURSIVE GroupLoop(_, _, _)
GroupLoop(map, todo, acc) ==
    IF todo = <<>> THEN acc
    ELSE LET m == Head(todo)
             alias == ResolveAlias(map, m)
             known == \E k \in DOMAIN acc : acc[k].connection = alias
             acc1 == IF known THEN acc
                     ELSE Append(acc, [connection |-> alias, models |-> <<>>])
             at == CHOOSE k \in DOMAIN acc1 : acc1[k].connection = alias
         IN  GroupLoop(map, Tail(todo),
                       [acc1 EXCEPT ![at].models = Append(@, m)])

\* The handler of a connection, selected by its vendor identifier: an
\* identifier no handler class answers to is a configuration error.
select_handler(v) == IF v \in HandlerVendors THEN NoError ELSE "UnknownVendorError"

\* temporary_table_name with a handler taken for granted: an unknown vendor
\* goes on to parse and format like the others.
TemporaryName_NoHandlerCheck(v, original_db_table) ==
    IF v = "sqlite" THEN [err |-> NoError, name |-> original_db_table]
    ELSE LET p == parse_table_name(get_default_schema(v), original_db_table)
         IN  IF p.err # NoError
             THEN [err |-> p.err, name |-> original_db_table]
             ELSE [err |-> NoError,
                   name |-> get_formatted_table_name(v, p.schema, p.table)]

\* temporary_table_name without the test of line 159: sqlite is parsed and
\* formatted like the other dialects.
TemporaryName_NoSqliteCase(v, original_db_table) ==
    IF select_handler(v) # NoError
    THEN [err |-> "UnknownVendorError", name |-> original_db_table]
    ELSE LET p == parse_table_name(get_default_schema(v), original_db_table)
         IN  IF p.err # NoError
             THEN [err |-> p.err, name |-> original_db_table]
             ELSE [err |-> NoError,
                   name |-> get_formatted_table_name(v, p.schema, p.table)]

\* Lines 158-165 of temporary_table_name: the name to install, or the error
\* raised before anything is assigned. For sqlite nothing is computed.
TemporaryName(v, original_db_table) ==
    IF v = "sqlite" THEN [err |-> NoError, name |-> original_db_table]
    ELSE IF select_handler(v) # NoError
         THEN [err |-> "UnknownVendorError", name |-> original_db_table]
         ELSE LET p == parse_table_name(get_default_schema(v), original_db_table)
              IN  IF p.err # NoError
                  THEN [err |-> p.err, name |-> original_db_table]
                  ELSE [err |-> NoError,
                        name |-> get_formatted_table_name(v, p.schema, p.table)]

\* Line 166: model._meta.db_table = formatted_table_name, reached only when
\* lines 160-165 raised nothing.
InstallTemporaryName(tbl, m, r) ==
    IF r.err = NoError THEN [tbl EXCEPT ![m] = r.name] ELSE tbl

\* The restoration without try/finally: skipped when an exception propagates.
RestoreName_NoFinally(tbl, guard) ==
    IF exc = NoError THEN [tbl EXCEPT ![guard.model] = guard.original_db_table] ELSE tbl

\* Lines 169-170: finally: model._meta.db_table = original_db_table
RestoreName(tbl, guard) == [tbl EXCEPT ![guard.model] = guard.original_db_table]

\* The with statements nested the other way round: the scope closes while the
\* guards are still held.
AfterBody_ScopeFirst(guards) == "close"

\* Lines 132-133: the ExitStack is the inner with statement, so when its body
\* ends (normally or not) its guards are released before the scope closes.
AfterBody(guards) == IF guards = <<>> THEN "close" ELSE "unwind"

\* One loop that renames and reconciles each model in turn.
NextStep_Interleaved(phase, k, n) ==
    IF phase = "enter" THEN [pc |-> "create", model_idx |-> k]
    ELSE IF k < n THEN [pc |-> "enter", model_idx |-> k + 1]
         ELSE [pc |-> "exit", model_idx |-> k]

\* Lines 135-142: the two loops over the n models of the group, one after the
\* other: every model is entered, then every model is reconciled, then the
\* body of the with statements ends.
NextStep(phase, k, n) ==
    IF k < n THEN [pc |-> phase, model_idx |-> k + 1]
    ELSE IF phase = "enter" THEN [pc |-> "create", model_idx |-> 1]
         ELSE [pc |-> "exit", model_idx |-> k]

\* The create/diff of one field (ensure_field): nothing for a column that is
\* there and compatible, a new column for an absent one, an alteration otherwise.
FieldDDL(tbl, field) ==
    LET was == tbl.cols[field.name]
    IN  IF was = NoneVal
        THEN <<[op |-> "add_column", column |-> field.name,
                was |-> was, db_type |-> field.db_type]>>
        ELSE IF types_are_compatible(was, field.db_type)
             THEN <<>>
             ELSE <<[op |-> "alter_column", column |-> field.name,
                     was |-> was, db_type |-> field.db_type]>>

RECURSIVE FieldsDDL(_, _)
FieldsDDL(tbl, fields) ==
    IF fields = <<>> THEN <<>>
    ELSE FieldDDL(tbl, Head(fields)) \o FieldsDDL(tbl, Tail(fields))

\* create_table_for_model: the DDL one entity needs. A missing table is created
\* whole; an existing one is diffed field by field, in the fields' order.
PlannedDDL(m, tbl) ==
    IF ~tbl.exists
    THEN <<[op |-> "create_table", column |-> "", was |-> NoneVal, db_type |-> <<>>]>>
    ELSE FieldsDDL(tbl, model_fields(m))

\* What one accepted DDL operation does to the table of model m.
ApplyDDL(m, tbl, d) ==
    IF d.op = "create_table"
    THEN [exists |-> TRUE,
          cols |-> [f \in FieldNames(m) |->
                      LET k == CHOOSE j \in DOMAIN model_fields(m) :
                                   model_fields(m)[j].name = f
                      IN  model_fields(m)[k].db_type]]
    ELSE [tbl EXCEPT !.cols[d.column] = d.db_type]

RECURSIVE ApplyAll(_, _, _)
ApplyAll(m, tbl, ds) ==
    IF ds = <<>> THEN tbl ELSE ApplyAll(m, ApplyDDL(m, tbl, Head(ds)), Tail(ds))

\* The entry of the DDL log for an operation issued for model m.
Issued(alias, m, name, d) ==
    [connection |-> alias, model |-> m, name |-> name, op |-> d.op,
     column |-> d.column, was |-> d.was, db_type |-> d.db_type]

Group == models_by_connection[conn_idx]

ResetScopes == [a \in Aliases |-> "unopened"]

\* Lines 115-127.
GroupModels ==
    /\ pc = "start"
    /\ models_by_connection' = GroupLoop(mapping, models_to_process, <<>>)
    /\ conn_idx' = 1
    /\ pc' = "loop"
    /\ UNCHANGED <<db_table, model_idx, stack, exc, scope, opened, db, db_at_open,
                   db_at_start, ddl, run, prev_outcome>>
    /\ UNCHANGED other_vars

\* Lines 130-133: the next connection's schema_editor() and ExitStack are entered.
OpenScope ==
    /\ pc = "loop"
    /\ conn_idx <= Len(models_by_connection)
    /\ scope' = [scope EXCEPT ![Group.connection] = "open"]
    /\ opened' = [opened EXCEPT ![Group.connection] = @ + 1]
    /\ db_at_open' = db
    /\ stack' = <<>>
    /\ model_idx' = 1
    /\ pc' = "enter"
    /\ UNCHANGED <<db_table, models_by_connection, conn_idx, exc, db, db_at_start,
                   ddl, run, prev_outcome>>
    /\ UNCHANGED other_vars

\* Line 130, the dict exhausted: process_models returns.
Return ==
    /\ pc = "loop"
    /\ conn_idx > Len(models_by_connection)
    /\ pc' = "done"
    /\ UNCHANGED <<db_table, models_by_connection, conn_idx, model_idx, stack, exc,
                   scope, opened, db, db_at_open, db_at_start, ddl, run, prev_outcome>>
    /\ UNCHANGED other_vars

\* Lines 135-138 with 158-168: one stack.enter_context(temporary_table_name(..)),
\* the generator run up to its yield.
EnterContext ==
    /\ pc = "enter"
    /\ LET m == Group.models[model_idx]
           r == TemporaryName(vendor[Group.connection], db_table[m])
       IN  /\ db_table' = InstallTemporaryName(db_table, m, r)
           /\ IF r.err = NoError
              THEN /\ stack' = Append(stack, [model |-> m,
                                              original_db_table |-> db_table[m]])
                   /\ exc' = exc
                   /\ LET nxt == NextStep("enter", model_idx, Len(Group.models))
                      IN  /\ pc' = IF nxt.pc = "exit" THEN AfterBody(stack') ELSE nxt.pc
                          /\ model_idx' = nxt.model_idx
              ELSE /\ stack' = stack
                   /\ exc' = r.err
                   /\ pc' = AfterBody(stack)
                   /\ model_idx' = model_idx
    /\ UNCHANGED <<models_by_connection, conn_idx, scope, opened, db, db_at_open,
                   db_at_start, ddl, run, prev_outcome>>
    /\ UNCHANGED other_vars

\* Lines 141-142: one create_table_for_model. Any DDL operation it issues may be
\* rejected by the database (SchemaError); the ones before it were applied.
CreateTable ==
    /\ pc = "create"
    /\ LET m == Group.models[model_idx]
           plan == PlannedDDL(m, db[m])
       IN  \E rejected \in 0..Len(plan) :
              LET applied == IF rejected = 0 THEN plan ELSE SubSeq(plan, 1, rejected - 1)
                  issued == IF rejected = 0 THEN plan ELSE SubSeq(plan, 1, rejected)
              IN  /\ db' = [db EXCEPT ![m] = ApplyAll(m, @, applied)]
                  /\ ddl' = ddl \o [k \in DOMAIN issued |->
                                      Issued(Group.connection, m, db_table[m], issued[k])]
                  /\ IF rejected # 0
                     THEN exc' = "SchemaError" /\ pc' = AfterBody(stack)
                          /\ model_idx' = model_idx
                     ELSE LET nxt == NextStep("create", model_idx, Len(Group.models))
                          IN  /\ exc' = exc
                              /\ pc' = IF nxt.pc = "exit" THEN AfterBody(stack) ELSE nxt.pc
                              /\ model_idx' = nxt.model_idx
    /\ UNCHANGED <<db_table, models_by_connection, conn_idx, stack, scope, opened,
                   db_at_open, db_at_start, run, prev_outcome>>
    /\ UNCHANGED other_vars

\* The guards released in the order they were acquired.
ExitCallback_FIFO ==
    /\ pc = "unwind"
    /\ stack # <<>>
    /\ db_table' = RestoreName(db_table, stack[1])
    /\ stack' = Tail(stack)
    /\ pc' = AfterBody(stack')
    /\ UNCHANGED <<models_by_connection, conn_idx, model_idx, exc, scope, opened, db,
                   db_at_open, db_at_start, ddl, run, prev_outcome>>
    /\ UNCHANGED other_vars

\* ExitStack.__exit__: the last guard entered is released (lines 169-170).
ExitCallback ==
    /\ pc = "unwind"
    /\ stack # <<>>
    /\ db_table' = RestoreName(db_table, stack[Len(stack)])
    /\ stack' = SubSeq(stack, 1, Len(stack) - 1)
    /\ pc' = AfterBody(stack')
    /\ UNCHANGED <<models_by_connection, conn_idx, model_idx, exc, scope, opened, db,
                   db_at_open, db_at_start, ddl, run, prev_outcome>>
    /\ UNCHANGED other_vars

\* The scope closed without rolling back: what was applied before the
\* rejected operation stays.
CloseScope_NoRollback ==
    /\ pc = "close"
    /\ IF exc = NoError
       THEN /\ scope' = [scope EXCEPT ![Group.connection] = "committed"]
            /\ conn_idx' = conn_idx + 1
            /\ pc' = "loop"
       ELSE /\ scope' = [scope EXCEPT ![Group.connection] = "rolledback"]
            /\ conn_idx' = conn_idx
            /\ pc' = "raised"
    /\ UNCHANGED <<db_table, models_by_connection, model_idx, stack, exc, opened, db,
                   db_at_open, db_at_start, ddl, run, prev_outcome>>
    /\ UNCHANGED other_vars

\* Line 132, the with statement left: the scope commits after a normal end and
\* rolls back on an exception, which then leaves process_models (nothing catches it).
CloseScope ==
    /\ pc = "close"
    /\ IF exc = NoError
       THEN /\ scope' = [scope EXCEPT ![Group.connection] = "committed"]
            /\ db' = db
            /\ conn_idx' = conn_idx + 1
            /\ pc' = "loop"
       ELSE /\ scope' = [scope EXCEPT ![Group.connection] = "rolledback"]
            /\ db' = [m \in Models |->
                        IF InList(m, Group.models) THEN db_at_open[m] ELSE db[m]]
            /\ conn_idx' = conn_idx
            /\ pc' = "raised"
    /\ UNCHANGED <<db_table, models_by_connection, model_idx, stack, exc, opened,
                   db_at_open, db_at_start, ddl, run, prev_outcome>>
    /\ UNCHANGED other_vars

\* The command is run again, against the same entities and the same databases.
RunAgain ==
    /\ pc \in {"done", "raised"}
    /\ run + 1 \in Runs
    /\ run' = run + 1
    /\ prev_outcome' = pc
    /\ pc' = "start"
    /\ models_by_connection' = <<>>
    /\ conn_idx' = 1
    /\ model_idx' = 1
    /\ stack' = <<>>
    /\ exc' = NoError
    /\ scope' = ResetScopes
    /\ opened' = [a \in Aliases |-> 0]
    /\ db_at_open' = db
    /\ db_at_start' = db
    /\ ddl' = <<>>
    /\ UNCHANGED <<db_table, db>>
    /\ UNCHANGED other_vars

\* The pure functions' variables, while process_models is what runs.
CompatIdle ==
    /\ existing_type = <<>>
    /\ expected_type = <<>>
    /\ compat_called = FALSE
    /\ compat_result = FALSE

ParseIdle ==
    /\ table_name = <<>>
    /\ default_schema = <<>>
    /\ parse_called = FALSE
    /\ parsed = [err |-> NoError, schema |-> <<>>, table |-> <<>>]

EligibleIdle ==
    /\ app_name = <<>>
    /\ app_path = <<>>
    /\ exclude_setting = <<>>
    /\ additional_apps = [is_set |-> FALSE, apps |-> <<>>]
    /\ eligible_called = FALSE
    /\ eligible = FALSE

RunIdle ==
    /\ models_to_process = <<>>
    /\ mapping = [a \in AppLabels |-> Absent]
    /\ vendor = [a \in Aliases |-> "sqlite"]
    /\ db_table = [m \in Models |-> declared_db_table(m)]
    /\ models_by_connection = <<>>
    /\ pc = "idle"
    /\ conn_idx = 1
    /\ model_idx = 1
    /\ stack = <<>>
    /\ exc = NoError
    /\ scope = ResetScopes
    /\ opened = [a \in Aliases |-> 0]
    /\ db = EmptyDB
    /\ db_at_open = EmptyDB
    /\ db_at_start = EmptyDB
    /\ ddl = <<>>
    /\ run = 1
    /\ prev_outcome = "none"

Init ==
    /\ CompatIdle
    /\ ParseIdle
    /\ EligibleIdle
    /\ models_to_process \in SeqsUpTo(Models, MaxModels)
    /\ mapping \in Mappings
    /\ vendor \in VendorSettings
    /\ db_table = [m \in Models |-> declared_db_table(m)]
    /\ models_by_connection = <<>>
    /\ pc = "start"
    /\ conn_idx = 1
    /\ model_idx = 1
    /\ stack = <<>>
    /\ exc = NoError
    /\ scope = ResetScopes
    /\ opened = [a \in Aliases |-> 0]
    /\ db \in InitialDBs
    /\ db_at_open = db
    /\ db_at_start = db
    /\ ddl = <<>>
    /\ run = 1
    /\ prev_outcome = "none"

Next ==
    \/ GroupModels
    \/ OpenScope
    \/ Return
    \/ EnterContext
    \/ CreateTable
    \/ ExitCallback
    \/ CloseScope
    \/ RunAgain

Spec == Init /\ [][Next]_vars

\* ------------------------------- types_are_compatible, called on its own

UpperChar(c) ==
    IF \E k \in DOMAIN LowerLetters : LowerLetters[k] = c
    THEN UpperLetters[CHOOSE k \in DOMAIN LowerLetters : LowerLetters[k] = c]
    ELSE c

Upper(s) == [k \in DOMAIN s |-> UpperChar(s[k])]

Capitalized(s) == [k \in DOMAIN s |-> IF k = 1 THEN UpperChar(s[k]) ELSE s[k]]

Padded(s) == <<" ">> \o s \o <<" ">>

\* Every synonym the matrix lists.
ListedTypes ==
    UNION {{compatible_types[g][k] : k \in DOMAIN compatible_types[g]} :
           g \in DOMAIN compatible_types}

\* Native type names the matrix does not list.
UnlistedTypes ==
    { <<"u", "u", "i", "d">>, <<"j", "s", "o", "n">>, <<"i", "n", "t", "4">> }

\* The type names the check is called with: the listed and unlisted names, in
\* lower, upper and mixed case and with blanks around them, "" and None.
TypeNames ==
    LET plain == ListedTypes \cup UnlistedTypes
    IN  plain \cup {Upper(s) : s \in plain} \cup {Capitalized(s) : s \in plain}
              \cup {Padded(s) : s \in plain} \cup {Padded(Upper(s)) : s \in plain}
              \cup {<<>>, NoneVal, <<" ">>}

CompatInit ==
    /\ existing_type \in TypeNames
    /\ expected_type \in TypeNames
    /\ compat_called = FALSE
    /\ compat_result = FALSE
    /\ ParseIdle
    /\ EligibleIdle
    /\ RunIdle

CallTypesAreCompatible ==
    /\ ~compat_called
    /\ compat_result' = types_are_compatible(existing_type, expected_type)
    /\ compat_called' = TRUE
    /\ UNCHANGED <<existing_type, expected_type, parse_vars, eligible_vars,
                   input_vars, run_vars>>

CompatNext == CallTypesAreCompatible

SpecCompat == CompatInit /\ [][CompatNext]_vars

\* ------------------------------------------------ the compatibility matrix

\* The members of synonym group g, as a set.
GroupMembers(g) == {compatible_types[g][k] : k \in DOMAIN compatible_types[g]}

\* A type name with its letters lower-cased; "" for an empty or absent name.
LowerCased(n) == IF n = NoneVal \/ n = <<>> THEN <<>> ELSE Lower(n)

\* The spellings of a name that differ from it in letter case only.
CaseVariants(n) == IF n = NoneVal THEN {n} ELSE {n, Lower(n), Upper(n), Capitalized(n)}

\* The spellings that differ in letter case or in blanks around the name.
SpellingVariants(n) ==
    IF n = NoneVal THEN {n}
    ELSE CaseVariants(n) \cup {Padded(v) : v \in CaseVariants(n)}
                         \cup {Strip(v, {" "}) : v \in CaseVariants(n)}

\* C7: types_are_compatible is symmetric: the value returned for
\* (existing, expected) is the value for (expected, existing), for listed,
\* unlisted, empty, None, upper-case, mixed-case and padded names alike.
C7_Symmetric ==
    compat_called =>
        compat_result = types_are_compatible(expected_type, existing_type)

C7_Witness ==
    /\ compat_called
    /\ compat_result
    /\ existing_type = <<"V", "a", "r", "c", "h", "a", "r">>
    /\ expected_type = <<"t", "e", "x", "t">>

\* C8: the result is true exactly when both lower-cased names are members of
\* the same one of the six synonym groups; the groups share no name; an empty
\* or absent name is compatible with nothing, another empty name included; and
\* varchar against int is not compatible.
C8_SameGroupIff ==
    compat_called =>
        /\ compat_result =
               (\E g \in 1..6 : /\ LowerCased(existing_type) \in GroupMembers(g)
                                /\ LowerCased(expected_type) \in GroupMembers(g))
        /\ Len(compatible_types) = 6
        /\ \A g, h \in 1..6 : g # h => GroupMembers(g) \cap GroupMembers(h) = {}
        /\ (existing_type \in {<<>>, NoneVal} \/ expected_type \in {<<>>, NoneVal})
               => ~compat_result
        /\ (existing_type = <<"v", "a", "r", "c", "h", "a", "r">>
               /\ expected_type = <<"i", "n", "t">>) => ~compat_result

C8_Witness ==
    /\ compat_called
    /\ compat_result
    /\ existing_type = <<"I", "N", "T">>
    /\ expected_type = <<"i", "n", "t", "e", "g", "e", "r">>

\* C9, as claimed: the result is the same for every spelling of the two names
\* that differs in letter case or in leading or trailing blanks.
C9_CaseAndBlanksIgnored ==
    compat_called =>
        \A a \in SpellingVariants(existing_type), b \in SpellingVariants(expected_type) :
            types_are_compatible(a, b) = compat_result

\* C9, amended: both names are lower-cased and nothing else: the result is the
\* same for every spelling that differs in letter case only, and a name with a
\* leading or trailing blank is compatible with nothing.
C9_CaseIgnoredBlanksKept ==
    compat_called =>
        /\ \A a \in CaseVariants(existing_type), b \in CaseVariants(expected_type) :
               types_are_compatible(a, b) = compat_result
        /\ (\E n \in {existing_type, expected_type} :
                n # NoneVal /\ n # Strip(n, {" "})) => ~compat_result

C9_Witness ==
    /\ compat_called
    /\ compat_result
    /\ existing_type = <<"B", "I", "G", "I", "N", "T">>
    /\ expected_type = <<"S", "m", "a", "l", "l", "i", "n", "t">>

\* ----------------------------------- parse_table_name, called on its own

\* The longest raw identifier drawn from the alphabet.
MaxLen == 4

ParseAlphabet == {"a", "b", ".", "[", "]", "\"", "'"}

\* The identifiers of the documented examples, and one with two dots.
ExampleNames ==
    { <<"[", "s", "a", "l", "e", "s", "]", ".", "[", "o", "r", "d", "e", "r", "s", "]">>,
      <<"s", "a", "l", "e", "s", ".", "o", "r", "d", "e", "r", "s">>,
      <<"o", "r", "d", "e", "r", "s">>,
      <<"a", ".", "b", ".", "a">> }

DefaultSchemas == {get_default_schema(v) : v \in HandlerVendors}

ParseInit ==
    /\ table_name \in SeqsUpTo(ParseAlphabet, MaxLen) \cup ExampleNames
    /\ default_schema \in DefaultSchemas
    /\ parse_called = FALSE
    /\ parsed = [err |-> NoError, schema |-> <<>>, table |-> <<>>]
    /\ CompatIdle
    /\ EligibleIdle
    /\ RunIdle

CallParseTableName ==
    /\ ~parse_called
    /\ parsed' = parse_table_name(default_schema, table_name)
    /\ parse_called' = TRUE
    /\ UNCHANGED <<table_name, default_schema, compat_vars, eligible_vars,
                   input_vars, run_vars>>

ParseNext == CallParseTableName

SpecParse == ParseInit /\ [][ParseNext]_vars

\* ------------------------------------------------ the identifier grammar

\* The position of the first '.' of an identifier that has one.
FirstDot(s) == CHOOSE k \in DOMAIN s : s[k] = "." /\ \A j \in DOMAIN s : s[j] = "." => k <= j

BeforeFirstDot(s) == SubSeq(s, 1, FirstDot(s) - 1)

AfterFirstDot(s) == SubSeq(s, FirstDot(s) + 1, Len(s))

\* s without its leading and trailing characters of chars: what lies between
\* the first and the last character that is not in chars.
Between(s, chars) ==
    LET keep == {k \in DOMAIN s : s[k] \notin chars}
    IN  IF keep = {} THEN <<>>
        ELSE SubSeq(s, CHOOSE k \in keep : \A j \in keep : k <= j,
                       CHOOSE k \in keep : \A j \in keep : j <= k)

\* A part without its double quotes, then without its single quotes.
Unquoted(s) == Between(Between(s, {"\""}), {"'"})

Unbracketed(s) == Between(s, {"[", "]"})

IsBracketed(s) == HasChar("[", s) /\ HasChar("]", s)

Pair(schema, table) == [err |-> NoError, schema |-> schema, table |-> table]

\* C10, as claimed: an identifier with a '.' is split at its first '.', the
\* brackets (of a bracketed one) and the quotes taken off each part; a bare
\* identifier yields (default schema, the raw identifier).
C10_BareIsRaw ==
    parse_called =>
        /\ (IsBracketed(table_name) /\ HasChar(".", table_name)) =>
               parsed = Pair(Unquoted(Unbracketed(BeforeFirstDot(table_name))),
                             Unquoted(Unbracketed(AfterFirstDot(table_name))))
        /\ (~IsBracketed(table_name) /\ HasChar(".", table_name)) =>
               parsed = Pair(Unquoted(BeforeFirstDot(table_name)),
                             Unquoted(AfterFirstDot(table_name)))
        /\ (~IsBracketed(table_name) /\ ~HasChar(".", table_name)) =>
               parsed = Pair(default_schema, table_name)

\* C10, amended: the same, but a bare identifier yields (default schema, the
\* identifier without its leading and trailing quotes); and the three
\* documented examples parse as documented.
C10_Grammar ==
    parse_called =>
        /\ (IsBracketed(table_name) /\ HasChar(".", table_name)) =>
               parsed = Pair(Unquoted(Unbracketed(BeforeFirstDot(table_name))),
                             Unquoted(Unbracketed(AfterFirstDot(table_name))))
        /\ (~IsBracketed(table_name) /\ HasChar(".", table_name)) =>
               parsed = Pair(Unquoted(BeforeFirstDot(table_name)),
                             Unquoted(AfterFirstDot(table_name)))
        /\ (~IsBracketed(table_name) /\ ~HasChar(".", table_name)) =>
               parsed = Pair(default_schema, Unquoted(table_name))
        /\ table_name \in
               { <<"[", "s", "a", "l", "e", "s", "]", ".", "[", "o", "r", "d", "e", "r", "s", "]">>,
                 <<"s", "a", "l", "e", "s", ".", "o", "r", "d", "e", "r", "s">> }
               => parsed = Pair(<<"s", "a", "l", "e", "s">>, <<"o", "r", "d", "e", "r", "s">>)
        /\ table_name = <<"o", "r", "d", "e", "r", "s">>
               => parsed = Pair(default_schema, <<"o", "r", "d", "e", "r", "s">>)

\* A dotted identifier with a second '.', which stays in the table part.
C10_Witness ==
    /\ parse_called
    /\ table_name = <<"a", ".", "b", ".", "a">>
    /\ parsed = Pair(<<"a">>, <<"b", ".", "a">>)

\* ------------------------------------------------ the runs of process_models

\* process_models has ended: it returned, or an exception left it.
Ended == pc \in {"done", "raised"}

\* Some DDL of this run was issued under a temporary name.
IssuedUnderTemporaryName ==
    \E k \in DOMAIN ddl : ddl[k].name # declared_db_table(ddl[k].model)

\* The models of connection a's group.
GroupOf(a) == {m \in Models : InList(m, models_to_process) /\ ResolveAlias(mapping, m) = a}

\* exception e has just been raised by an enter_context: no guard has been
\* released yet.
RaisedEntering(e) ==
    /\ exc = e
    /\ pc \in {"unwind", "close"}
    /\ Len(stack) = model_idx - 1

\* Two type names of the same synonym group.
SameFamily(a, b) ==
    LET la == LowerCased(a)
        lb == LowerCased(b)
    IN  \E g \in DOMAIN compatible_types :
            InList(la, compatible_types[g]) /\ InList(lb, compatible_types[g])

\* C1: rename reversibility: when process_models has ended, by returning or by
\* an exception raised while renaming or while reconciling, every model's
\* db_table is the identifier it declared.
C1_RenameReversible ==
    Ended => \A m \in Models : db_table[m] = declared_db_table(m)

C1_Witness ==
    /\ pc = "raised"
    /\ exc = "SchemaError"
    /\ IssuedUnderTemporaryName

\* C2: whenever a connection's scope closes, by commit or by rollback, every
\* guard has been released and no model of its group carries a temporary name.
C2_RestoredBeforeClose ==
    [][\A a \in Aliases :
          (scope[a] = "open" /\ scope'[a] \in {"committed", "rolledback"}) =>
              /\ stack = <<>>
              /\ \A m \in GroupOf(a) : db_table[m] = declared_db_table(m)]_vars

C2_Witness ==
    /\ scope["default"] = "committed"
    /\ scope["analytics"] = "rolledback"
    /\ \E k \in DOMAIN ddl :
          ddl[k].connection = "default" /\ ddl[k].name # declared_db_table(ddl[k].model)
    /\ \E k \in DOMAIN ddl :
          ddl[k].connection = "analytics" /\ ddl[k].name # declared_db_table(ddl[k].model)

\* C3: isolation: when a run has met a SchemaError in one connection's group,
\* every other connection's group of the run has been processed and committed.
C3_Isolation ==
    (Ended /\ exc = "SchemaError") =>
        \A k \in DOMAIN models_by_connection :
            k # conn_idx => scope[models_by_connection[k].connection] = "committed"

C5_SecondRunIssuesNothing ==
    (run = 2 /\ prev_outcome = "done") => ddl = <<>>

\* C6: non-destructiveness: no column whose type and expected type are of the
\* same synonym group is altered; nothing is ever dropped; and such a column
\* has, at every point of the run, the type it had when the run began.
C6_NonDestructive ==
    /\ \A k \in DOMAIN ddl :
          /\ ddl[k].op \in {"create_table", "add_column", "alter_column"}
          /\ ddl[k].op = "alter_column" => ~SameFamily(ddl[k].was, ddl[k].db_type)
    /\ \A m \in Models : \A j \in DOMAIN model_fields(m) :
          LET f == model_fields(m)[j]
              was == db_at_start[m].cols[f.name]
          IN  (db_at_start[m].exists /\ ~(db[m].exists /\ db[m].cols[f.name] = was)) =>
                  ~SameFamily(was, f.db_type)

\* Order's id column (INT against integer) is left alone in a run that alters
\* its key column.
C6_Witness ==
    /\ pc = "done"
    /\ db_at_start["Order"].cols["id"] = <<"I", "N", "T">>
    /\ db["Order"].cols["id"] = <<"I", "N", "T">>
    /\ \E k \in DOMAIN ddl : ddl[k].model = "Order" /\ ddl[k].op = "alter_column"


\* C11: every raw identifier resolves to a (schema, table) pair: the call
\* returns a pair whatever the identifier, a bracketed one with no '.' included.
C11_AlwaysAPair ==
    parse_called => parsed.err = NoError


\* ------------------------------------------------ grouping and ordering

\* The alias the settings give a model: the mapping's alias for its app label,
\* "default" when the mapping has none or an empty one.
ExpectedAlias(m) ==
    IF mapping[app_label(m)] \in Aliases THEN mapping[app_label(m)] ELSE "default"

\* How many times x occurs in seq.
Count(x, seq) == Cardinality({k \in DOMAIN seq : seq[k] = x})

\* C12: connection grouping: once the models are grouped, no two groups are of
\* the same connection, and every occurrence of a model in the input is in the
\* group of the alias the settings give it and in no other; and every
\* connection's scope is opened at most once in a run, exactly once by the
\* time the run has returned if it has a model and never if it has none.
C12_GroupedOncePerConnection ==
    /\ pc \notin {"start", "idle"} =>
          /\ \A j, k \in DOMAIN models_by_connection :
                j # k => models_by_connection[j].connection
                             # models_by_connection[k].connection
          /\ \A k \in DOMAIN models_by_connection : \A m \in Models :
                Count(m, models_by_connection[k].models) =
                    IF models_by_connection[k].connection = ExpectedAlias(m)
                    THEN Count(m, models_to_process)
                    ELSE 0
          /\ \A m \in Models :
                Count(m, models_to_process) > 0 =>
                    \E k \in DOMAIN models_by_connection :
                        models_by_connection[k].connection = ExpectedAlias(m)
    /\ \A a \in Aliases : opened[a] <= 1
    /\ pc = "done" =>
          \A a \in Aliases :
              opened[a] = IF \E k \in DOMAIN models_to_process :
                                 ExpectedAlias(models_to_process[k]) = a
                          THEN 1 ELSE 0

\* Two connections interleaved in the input, each opened once.
C12_Witness ==
    /\ pc = "done"
    /\ models_to_process = <<"Order", "Item", "Order">>
    /\ mapping["sales"] = "analytics"
    /\ opened = [a \in Aliases |-> 1]


\* C13: one DDL transaction per connection: when a SchemaError is raised at the
\* k-th model of a group, the DDL issued for the connection concerns the first
\* k models only, the last of it being the rejected operation on the k-th; and
\* once the exception has left process_models the scope is rolled back and
\* every table of the group is as it was when the scope was opened.
C13_WholeGroupRolledBack ==
    exc = "SchemaError" =>
        /\ ddl # <<>>
        /\ ddl[Len(ddl)].model = Group.models[model_idx]
        /\ ddl[Len(ddl)].connection = Group.connection
        /\ \A j \in DOMAIN ddl :
              ddl[j].connection = Group.connection =>
                  \E k \in 1..model_idx : Group.models[k] = ddl[j].model
        /\ pc = "raised" =>
              /\ scope[Group.connection] = "rolledback"
              /\ \A k \in DOMAIN Group.models :
                    db[Group.models[k]] = db_at_open[Group.models[k]]

\* The table created for the first model of the group is gone after the
\* second model's DDL was rejected.
C13_Witness ==
    /\ pc = "raised"
    /\ exc = "SchemaError"
    /\ model_idx = 2
    /\ Group.models[1] # Group.models[2]
    /\ ~db[Group.models[1]].exists
    /\ \E j \in DOMAIN ddl :
          ddl[j].model = Group.models[1] /\ ddl[j].op = "create_table"


\* ---------------------------------------------------------------------------
\* is_app_eligible (manager.py): which installed apps are scanned for models
\* ---------------------------------------------------------------------------

\* getattr(settings, NAME, default) on a settings object without the attribute
Unset == <<"<unset>">>

DefaultExcludePath == <<"s", "i", "t", "e", "-", "p", "a", "c", "k", "a", "g", "e", "s">>

\* str.startswith, the reading under which only a leading occurrence counts
IsSubstring_PrefixOnly(needle, hay) ==
    /\ Len(needle) <= Len(hay)
    /\ SubSeq(hay, 1, Len(needle)) = needle

\* Python's  needle in hay  on strings: an occurrence at any offset
RECURSIVE IsSubstring(_, _)
IsSubstring(needle, hay) ==
    IF Len(needle) > Len(hay) THEN FALSE
    ELSE IF SubSeq(hay, 1, Len(needle)) = needle THEN TRUE
    ELSE IsSubstring(needle, Tail(hay))

\* name.split(".")[-1]: the text after the last dot, the whole name without one
RECURSIVE LastComponent(_)
LastComponent(name) ==
    IF HasChar(".", name) THEN LastComponent(Split1(name, ".")[2]) ELSE name

is_app_eligible(name, path, exclude, additional) ==
    LET label == LastComponent(name)
        exclude_path == IF exclude = Unset THEN DefaultExcludePath ELSE exclude
        is_local_app == ~IsSubstring(exclude_path, path)
        is_additional_app ==
            InList(label, IF additional.is_set THEN additional.apps ELSE <<>>)
    IN  is_local_app \/ is_additional_app

MaxParts == 3

PathParts ==
    { <<"/", "s", "r", "v", "/">>,
      <<"s", "i", "t", "e", "-", "p", "a", "c", "k", "a", "g", "e", "s">>,
      <<"/", "s", "h", "o", "p">>,
      <<"m", "y", "-">> }

RECURSIVE Concat(_)
Concat(parts) == IF parts = <<>> THEN <<>> ELSE Head(parts) \o Concat(Tail(parts))

AppPaths == {Concat(p) : p \in SeqsUpTo(PathParts, MaxParts)}

AppNames ==
    { <<"s", "h", "o", "p">>,
      <<"p", "k", "g", ".", "s", "h", "o", "p">>,
      <<"p", "k", "g", ".", "b", "i", "l", "l", "i", "n", "g">> }

ExcludeSettings ==
    { Unset,
      <<"s", "i", "t", "e", "-", "p", "a", "c", "k", "a", "g", "e", "s">>,
      <<"/", "s", "r", "v", "/">>,
      <<"v", "e", "n", "d", "o", "r">> }

AdditionalSettings ==
    { [is_set |-> FALSE, apps |-> <<>>],
      [is_set |-> TRUE, apps |-> <<>>],
      [is_set |-> TRUE, apps |-> << <<"s", "h", "o", "p">> >>],
      [is_set |-> TRUE,
       apps |-> << <<"p", "k", "g", ".", "s", "h", "o", "p">>,
                   <<"b", "i", "l", "l", "i", "n", "g">> >>] }

EligibleInit ==
    /\ app_name \in AppNames
    /\ app_path \in AppPaths
    /\ exclude_setting \in ExcludeSettings
    /\ additional_apps \in AdditionalSettings
    /\ eligible_called = FALSE
    /\ eligible = FALSE
    /\ CompatIdle
    /\ ParseIdle
    /\ RunIdle

CallIsAppEligible ==
    /\ ~eligible_called
    /\ eligible' = is_app_eligible(app_name, app_path, exclude_setting, additional_apps)
    /\ eligible_called' = TRUE
    /\ UNCHANGED <<app_name, app_path, exclude_setting, additional_apps,
                   compat_vars, parse_vars, input_vars, run_vars>>

EligibleNext == CallIsAppEligible

SpecEligible == EligibleInit /\ [][EligibleNext]_vars

\* ---- helpers for the eligibility claim, written independently of the code
ExcludedText == IF exclude_setting = Unset THEN DefaultExcludePath ELSE exclude_setting

OccursAt(k, needle, hay) ==
    /\ k + Len(needle) - 1 <= Len(hay)
    /\ \A i \in 1..Len(needle) : hay[k + i - 1] = needle[i]

Contains(needle, hay) == \E k \in 1..(Len(hay) + 1) : OccursAt(k, needle, hay)

StartsWith(needle, hay) == OccursAt(1, needle, hay)

ModuleLabel ==
    LET dots == {k \in DOMAIN app_name : app_name[k] = "."}
        last == IF dots = {} THEN 0 ELSE CHOOSE k \in dots : \A j \in dots : j <= k
    IN  SubSeq(app_name, last + 1, Len(app_name))

AllowListed ==
    /\ additional_apps.is_set
    /\ \E k \in DOMAIN additional_apps.apps : additional_apps.apps[k] = ModuleLabel

\* C14 (as stated): eligible iff the path does not START with the excluded
\* text, or the module label is allow-listed; an occurrence of the excluded
\* text further inside the path does not exclude the app.
C14_PrefixExcludes ==
    eligible_called => (eligible <=> (~StartsWith(ExcludedText, app_path) \/ AllowListed))

\* C14 (amended): is_app_eligible returns true iff the excluded text (setting
\* EXCLUDE_UNMANAGED_PATH, default "site-packages") occurs nowhere in the app's
\* path, or the last dotted component of the app's name is in
\* ADDITIONAL_UNMANAGED_TABLE_APPS; an app whose path contains the excluded
\* text at any offset, prefix or not, and which is not allow-listed is never
\* eligible.
C14_SubstringExcludes ==
    eligible_called =>
        /\ eligible <=> (~Contains(ExcludedText, app_path) \/ AllowListed)
        /\ (Contains(ExcludedText, app_path) /\ ~AllowListed) => ~eligible

\* an app installed under /srv/site-packages/, excluded by the default setting
\* although the excluded text is not a prefix of its path
C14_Witness ==
    /\ eligible_called
    /\ ~eligible
    /\ exclude_setting = Unset
    /\ app_path = <<"/", "s", "r", "v", "/">> \o DefaultExcludePath \o <<"/", "s", "h", "o", "p">>
    /\ ~StartsWith(ExcludedText, app_path)
    /\ ~AllowListed


\* C15: a handler-selection failure is raised before any entity of the group
\* is renamed and before any DDL reaches that connection: when it is raised no
\* guard is held, every entity carries its declared identifier, the connection
\* has received no DDL and its tables are as they were when the scope opened;
\* the unit then closes rolled back. A connection without a handler never
\* receives DDL at all.
C15_HandlerFailureBeforeRename ==
    /\ exc = "UnknownVendorError" =>
          /\ vendor[Group.connection] \notin HandlerVendors
          /\ pc \in {"close", "raised"}
          /\ model_idx = 1
          /\ stack = <<>>
          /\ \A m \in Models : db_table[m] = declared_db_table(m)
          /\ \A j \in DOMAIN ddl : ddl[j].connection # Group.connection
          /\ \A k \in DOMAIN Group.models : db[Group.models[k]] = db_at_open[Group.models[k]]
          /\ pc = "raised" => scope[Group.connection] = "rolledback"
    /\ \A j \in DOMAIN ddl : vendor[ddl[j].connection] \in HandlerVendors

\* the second connection has no handler: its unit of two entities is aborted
\* after the first connection's unit issued DDL
C15_Witness ==
    /\ exc = "UnknownVendorError"
    /\ pc = "raised"
    /\ conn_idx = 2
    /\ Len(Group.models) = 2
    /\ ddl # <<>>


\* The qualified names of the example entities, written out per dialect.
QualifiedName(v, m) ==
    CASE v = "postgresql" /\ m = "Order" ->
            <<"\"", "s", "a", "l", "e", "s", "\"", ".", "\"", "o", "r", "d", "e", "r", "s", "\"">>
      [] v = "postgresql" /\ m = "Item" ->
            <<"\"", "p", "u", "b", "l", "i", "c", "\"", ".", "\"", "i", "t", "e", "m", "s", "\"">>
      [] v = "microsoft" /\ m = "Order" ->
            <<"[", "s", "a", "l", "e", "s", "]", ".", "[", "o", "r", "d", "e", "r", "s", "]">>
      [] v = "microsoft" /\ m = "Item" ->
            <<"[", "d", "b", "o", "]", ".", "[", "i", "t", "e", "m", "s", "]">>
      [] OTHER -> <<"<no qualified name>">>

PhaseRank(p) ==
    CASE p = "enter" -> 1 [] p = "create" -> 2 [] p = "unwind" -> 3
      [] p = "close" -> 4 [] OTHER -> 0

\* the state part of C16
C16_DuringPhases ==
    /\ pc \in {"enter", "create", "unwind", "close"} => scope[Group.connection] = "open"
    /\ pc = "create" =>
          /\ Len(stack) = Len(Group.models)
          /\ \A k \in DOMAIN Group.models :
                /\ stack[k].model = Group.models[k]
                /\ vendor[Group.connection] # "sqlite" =>
                      db_table[Group.models[k]] =
                          QualifiedName(vendor[Group.connection], Group.models[k])
    /\ pc = "close" => stack = <<>>
    /\ \A j \in DOMAIN ddl :
          vendor[ddl[j].connection] # "sqlite" =>
              ddl[j].name = QualifiedName(vendor[ddl[j].connection], ddl[j].model)

\* the step part of C16
C16_PhaseStep ==
    /\ (PhaseRank(pc) > 0 /\ PhaseRank(pc') > 0) => PhaseRank(pc) <= PhaseRank(pc')
    /\ PhaseRank(pc') = 1 => pc \in {"loop", "enter"}
    /\ (PhaseRank(pc) > 0 /\ PhaseRank(pc') = 0) => pc = "close"
    /\ scope' # scope => (pc \in {"loop", "close"} \/ pc' = "start")
    /\ Len(stack') > Len(stack) => pc = "enter"
    /\ ddl' # ddl => (pc = "create" \/ pc' = "start")
    /\ Len(stack') < Len(stack) => (pc = "unwind" \/ pc' = "start")

\* C16: inside one connection unit the create/diff step of an entity starts
\* only after every entity of the group holds its guard, so during the whole
\* create/diff phase every entity of a non-sqlite group carries its formatted
\* qualified name and all DDL is issued under such names; and the steps come
\* in the order scope opened, renames applied, entities reconciled, names
\* restored, scope closed.
C16_PhaseOrdering == []C16_DuringPhases /\ [][C16_PhaseStep]_vars

\* the second create/diff of a postgresql group of two, both entities renamed
C16_Witness ==
    /\ pc = "create"
    /\ model_idx = 2
    /\ vendor[Group.connection] = "postgresql"
    /\ Group.models = <<"Order", "Item">>
    /\ db_table["Order"] = QualifiedName("postgresql", "Order")
    /\ db_table["Item"] = QualifiedName("postgresql", "Item")
    /\ ddl # <<>>


\* The entities of the input that belong to connection a, in input order.
InputOrder(a) ==
    LET OnConnection(m) == ExpectedAlias(m) = a
    IN  SelectSeq(models_to_process, OnConnection)

\* the state part of C17
C17_GroupKeepsOrder ==
    /\ \A g \in DOMAIN models_by_connection :
          models_by_connection[g].models = InputOrder(models_by_connection[g].connection)
    /\ pc \in {"enter", "create"} =>
          \A k \in DOMAIN stack : stack[k].model = Group.models[k]

\* the step part of C17
C17_OneByOne ==
    /\ (pc = "enter" /\ Len(stack') > Len(stack)) =>
          /\ Len(stack') = Len(stack) + 1
          /\ stack'[Len(stack')].model = InputOrder(Group.connection)[Len(stack')]
          /\ model_idx = Len(stack')
    /\ (pc = "enter" /\ pc' = "create") => model_idx' = 1
    /\ (pc = "create" /\ pc' = "create") => model_idx' = model_idx + 1
    /\ (pc = "create" /\ ddl' # ddl) =>
          /\ Len(ddl') > Len(ddl)
          /\ SubSeq(ddl', 1, Len(ddl)) = ddl
          /\ \A j \in (Len(ddl) + 1)..Len(ddl') :
                /\ ddl'[j].model = InputOrder(Group.connection)[model_idx]
                /\ ddl'[j].connection = Group.connection

\* C17: grouping never reorders the entities inside a group (a group is the
\* input list filtered on the connection), and both loops walk the group from
\* its first entity to its last, one entity at a time: guards are acquired in
\* input order and DDL is issued in input order.
C17_DiscoveryOrder == []C17_GroupKeepsOrder /\ [][C17_OneByOne]_vars

\* Item comes before Order in the input and both are on one connection: Item
\* is reconciled first
C17_Witness ==
    /\ pc = "done"
    /\ models_to_process = <<"Item", "Order">>
    /\ Len(models_by_connection) = 1
    /\ Len(ddl) >= 2
    /\ ddl[1].model = "Item"
    /\ ddl[Len(ddl)].model = "Order"


\* the step part of C18
C18_AcquireRelease ==
    /\ Len(stack') > Len(stack) =>
          /\ Len(stack') = Len(stack) + 1
          /\ SubSeq(stack', 1, Len(stack)) = stack
          /\ stack'[Len(stack')].original_db_table =
                 db_table[stack'[Len(stack')].model]
    /\ (Len(stack') < Len(stack) /\ pc' # "start") =>
          /\ stack' = SubSeq(stack, 1, Len(stack) - 1)
          /\ db_table'[stack[Len(stack)].model] = stack[Len(stack)].original_db_table
          /\ \A m \in Models :
                m # stack[Len(stack)].model => db_table'[m] = db_table[m]
    /\ (pc \in {"enter", "create"} /\ pc' \notin {"enter", "create"}) =>
          pc' = (IF stack' = <<>> THEN "close" ELSE "unwind")

\* C18: the guards of a group are released last acquired first, whatever ended
\* the phase (the normal end, an error while a later guard was being
\* acquired, an error during create/diff): while guards are held the only
\* release is of the latest one, each release puts back exactly the
\* identifier the guard recorded when it was acquired, and no guard is left
\* when the scope closes or the run ends.
C18_ReverseRelease ==
    [](pc \in {"close", "loop", "done", "raised"} => stack = <<>>)
        /\ [][C18_AcquireRelease]_vars

\* the third guard failed to be acquired; the second has been released, the
\* first is still held
C18_Witness ==
    /\ pc = "unwind"
    /\ exc = "IndexError"
    /\ model_idx = 3
    /\ Len(stack) = 1
    /\ stack[1].model = "Order"
    /\ db_table["Order"] # declared_db_table("Order")
    /\ db_table["Item"] = declared_db_table("Item")


\* C19: for a connection of vendor sqlite the rename changes nothing: at every
\* point of the run each of its entities carries its declared identifier, the
\* malformed identifier that the parser rejects raises nothing (neither the
\* parser nor the formatter is reached), DDL is issued under the declared
\* names; the guards are acquired all the same, one per entity, each recording
\* the declared identifier, and released before the scope closes.
C19_SqliteUntouched ==
    /\ \A m \in Models :
          vendor[ExpectedAlias(m)] = "sqlite" => db_table[m] = declared_db_table(m)
    /\ \A j \in DOMAIN ddl :
          vendor[ddl[j].connection] = "sqlite" =>
              ddl[j].name = declared_db_table(ddl[j].model)
    /\ (PhaseRank(pc) > 0 /\ vendor[Group.connection] = "sqlite") =>
          /\ exc \in {NoError, "SchemaError"}
          /\ \A k \in DOMAIN stack :
                stack[k].original_db_table = declared_db_table(stack[k].model)
          /\ pc = "create" => Len(stack) = Len(Group.models)
          /\ pc = "close" => stack = <<>>

\* a sqlite group holding the entity whose identifier no parser accepts: it
\* was reconciled under its declared name and its guards are being released
C19_Witness ==
    /\ pc = "unwind"
    /\ vendor[Group.connection] = "sqlite"
    /\ exc = NoError
    /\ Len(stack) = 1
    /\ Len(Group.models) = 2
    /\ \E j \in DOMAIN ddl :
          /\ ddl[j].model = "Audit"
          /\ ddl[j].connection = Group.connection
          /\ ddl[j].name = <<"[", "a", "u", "d", "i", "t", "]">>


\* C20: when an entity occurs more than once in a group, its first guard
\* records the declared identifier and every later one records the temporary
\* name already installed (the declared one again under sqlite); the guards
\* being released last in first out, the entity carries its declared
\* identifier once they are all released and after the run.
C20_DuplicateEntityRestored ==
    /\ \A k \in DOMAIN stack :
          LET m == stack[k].model
              held == \E j \in 1..(k - 1) : stack[j].model = m
              v == vendor[Group.connection]
          IN  stack[k].original_db_table =
                  IF held /\ v # "sqlite" THEN QualifiedName(v, m)
                  ELSE declared_db_table(m)
    /\ (stack = <<>> /\ pc \in {"close", "loop", "done", "raised"}) =>
          \A m \in Models : db_table[m] = declared_db_table(m)

\* Order twice in one postgresql group: the run is over, DDL was issued under
\* the qualified name, and Order carries its declared identifier
C20_Witness ==
    /\ pc = "done"
    /\ models_to_process = <<"Order", "Item", "Order">>
    /\ Len(models_by_connection) = 1
    /\ vendor[models_by_connection[1].connection] = "postgresql"
    /\ \E j \in DOMAIN ddl : ddl[j].name = QualifiedName("postgresql", "Order")
    /\ db_table["Order"] = declared_db_table("Order")

====
